---- MODULE Spec2Model ----
(***************************************************************************)
(* Model of prost's OpenEnum<T> (prost/src/open_enum.rs): a holder that is *)
(* either Known(T) or Unknown(i32), its conversions to and from the raw    *)
(* 32-bit integer, its extraction methods and its Message implementation   *)
(* (encoded_len, encode_raw, merge_field, clear).                          *)
(*                                                                         *)
(* The type parameter T is an input of the model: its variants, its total  *)
(* Into<i32> mapping (code) and its Default variant (dflt) are chosen in   *)
(* Init.  i32: TryInto<T> is the partial inverse of code.                  *)
(***************************************************************************)
EXTENDS Integers, Sequences, FiniteSets, TLC

VARIABLES
    code,     \* T's Into<i32>: variant -> canonical integer code
    dflt,     \* T::default()
    holder,   \* the OpenEnum<T> value under study
    prev,     \* the holder's value when the last operation was entered
    op,       \* name of the last operation
    arg,      \* input of the last operation (variant, integer, closure index, decode inputs), else 0
    res,      \* what the last operation returned
    buf,      \* the wire buffer: a sequence of bytes
    sent,     \* what each frame in buf was written from, oldest first
              \* (arg.origin of a merge_field: what the frame it read was written from)
    nmerged,  \* successful merge_field calls since the holder was constructed or cleared
    ncleared  \* consecutive clear calls

vars == <<code, dflt, holder, prev, op, arg, res, buf, sent, nmerged, ncleared>>

(***************************************************************************)
(* Bounds of the model.                                                    *)
(***************************************************************************)
NumVariants == 2      \* symbolic variants of T
MaxCode     == 2      \* variant codes are drawn from 0 .. MaxCode
NumFns      == 2      \* fallback closures / error values offered to callers
MaxFrames   == 1      \* varint frames the wire buffer may hold
MaxMerges   == 2      \* successful merges counted
MaxClears   == 2      \* consecutive clears counted

I32Max == 2147483647
I32Min == -I32Max - 1

Variants  == 1..NumVariants
NoVariant == 0
Codes     == 0..MaxCode
\* the 32-bit integers exercised: every possible code, a negative integer,
\* a two-byte varint and the i32 extremes
Raws      == Codes \cup {-1, 999, I32Min, I32Max}
FnIds     == 1..NumFns

(***************************************************************************)
(* The type parameter T.                                                   *)
(***************************************************************************)
\* T: Into<i32>
into_i32(v) == code[v]

\* i32: TryInto<T>; NoVariant stands for Err(_)
try_into_T(value) ==
    IF \E v \in Variants : code[v] = value
    THEN CHOOSE v \in Variants : code[v] = value
    ELSE NoVariant

\* T: Default
T_default == dflt

\* the mappings a T can have: every variant has its own code (variants are
\* numbered in the order of their codes)
TMappings == {c \in [Variants -> Codes] : \A v, w \in Variants : v < w => c[v] < c[w]}

(***************************************************************************)
(* enum OpenEnum<T> { Known(T), Unknown(i32) }                             *)
(***************************************************************************)
Known(v)   == [tag |-> "Known", v |-> v, raw |-> 0]
Unknown(r) == [tag |-> "Unknown", v |-> NoVariant, raw |-> r]

OpenEnum == {Known(v) : v \in Variants} \cup {Unknown(r) : r \in Raws}

\* impl Default for OpenEnum<T>
default == Known(T_default)

\* impl From<T> for OpenEnum<T>
from(value) == Known(value)

\* from_raw with negative integers clamped to 0
from_raw_clamped(value) ==
    LET t == try_into_T(value)
    IN  IF t # NoVariant THEN Known(t)
        ELSE Unknown(IF value < 0 THEN 0 ELSE value)

from_raw(value) ==
    LET t == try_into_T(value)
    IN  IF t # NoVariant THEN Known(t) ELSE Unknown(value)

\* to_raw returning the variant's position instead of its code
to_raw_ordinal(self) ==
    IF self.tag = "Known" THEN self.v ELSE self.raw

\* to_raw dropping the integer of an Unknown
to_raw_zero(self) ==
    IF self.tag = "Known" THEN code[self.v] ELSE 0

into_raw(self) ==
    IF self.tag = "Known" THEN into_i32(self.v) ELSE self.raw

to_raw(self) ==
    IF self.tag = "Known" THEN into_i32(self.v) ELSE self.raw

(***************************************************************************)
(* Results of operations.  v is a variant (or NoVariant), n an integer,    *)
(* k the index of the closure that produced the value (0: none).           *)
(***************************************************************************)
Result(tag, v, n, k) == [tag |-> tag, v |-> v, n |-> n, k |-> k]

Unit        == Result("Unit", NoVariant, 0, 0)
Value(v)    == Result("Value", v, 0, 0)         \* a T
RawInt(n)   == Result("RawInt", NoVariant, n, 0) \* an i32
Some(v)     == Result("Some", v, 0, 0)
None        == Result("None", NoVariant, 0, 0)
Ok(v)       == Result("Ok", v, 0, 0)
Err(e)      == Result("Err", NoVariant, e, 0)    \* Err of a fixed error value
ErrOf(k, r) == Result("Err", NoVariant, r, k)    \* Err(err_k(r))
\* panic!("unknown field value {}", v)
Panic(r)    == Result("Panic", NoVariant, r, 0)

\* the closures FnOnce(i32) -> T offered to unwrap_or_else: closure k maps
\* the integer r to a variant that depends on both k and r
FallbackFn(k, r) == (((r % NumVariants) + k) % NumVariants) + 1
\* the closures FnOnce(i32) -> E offered to known_or_else: closure k maps
\* r to the error value (k, r)
ErrFn(k, r) == ErrOf(k, r)

(***************************************************************************)
(* Extraction methods.                                                     *)
(***************************************************************************)
\* unwrap falling back to T's default instead of panicking
unwrap_silent(self) ==
    IF self.tag = "Known" THEN Value(self.v) ELSE Value(T_default)

unwrap(self) ==
    IF self.tag = "Known" THEN Value(self.v) ELSE Panic(self.raw)

unwrap_or(self, d) ==
    IF self.tag = "Known" THEN Value(self.v) ELSE Value(d)

\* unwrap_or_else calling the closure with 0 instead of the stored integer
unwrap_or_else_zero(self, f) ==
    IF self.tag = "Known" THEN Value(self.v) ELSE Value(FallbackFn(f, 0))

unwrap_or_else(self, f) ==
    IF self.tag = "Known" THEN Value(self.v) ELSE Value(FallbackFn(f, self.raw))

unwrap_or_default(self) ==
    IF self.tag = "Known" THEN Value(self.v) ELSE Value(T_default)

known(self) ==
    IF self.tag = "Known" THEN Some(self.v) ELSE None

known_or(self, err) ==
    IF self.tag = "Known" THEN Ok(self.v) ELSE Err(err)

known_or_else(self, err) ==
    IF self.tag = "Known" THEN Ok(self.v) ELSE ErrFn(err, self.raw)

(***************************************************************************)
(* The message framework's 32-bit integer primitive: a base-128 varint of  *)
(* the value sign-extended to 64 bits.  A byte is a 7-bit group plus 128   *)
(* when another byte follows.                                              *)
(***************************************************************************)
\* the wire type of a varint-framed scalar and one other wire type; the
\* primitive reads the same bytes whatever the field's tag, so one tag is used
WireTypes == {"Varint", "LengthDelimited"}
Tags      == {1}

RECURSIVE NatGroups(_)
NatGroups(n) == IF n < 128 THEN <<n>> ELSE <<n % 128>> \o NatGroups(n \div 128)

\* the 7-bit groups, least significant first, of x as a 64-bit two's
\* complement number; a negative x has bits 31..63 set and takes ten groups
Groups(x) ==
    IF x >= 0 THEN NatGroups(x)
    ELSE LET w == (x + I32Max) + 1   \* bits 0..30 of x
         IN  << w % 128, (w \div 128) % 128, (w \div 16384) % 128,
                (w \div 2097152) % 128, (w \div 268435456) + 120,
                127, 127, 127, 127, 1 >>

EncodeVarint(x) ==
    LET g == Groups(x)
    IN  [i \in 1..Len(g) |-> IF i < Len(g) THEN g[i] + 128 ELSE g[i]]

\* the low 32 bits of the groups g, as an i32
ToI32(g) ==
    LET G(i)  == IF i <= Len(g) THEN g[i] % 128 ELSE 0
        low31 == G(1) + G(2) * 128 + G(3) * 16384 + G(4) * 2097152
                 + (G(5) % 8) * 268435456
    IN  IF (G(5) \div 8) % 2 = 1 THEN (low31 - I32Max) - 1 ELSE low31

DecodeOk(value, rest) == [err |-> "", value |-> value, rest |-> rest]
DecodeErr(kind, rest) == [err |-> kind, value |-> 0, rest |-> rest]
DecodeErrors == {"WrongWireType", "Truncated", "InvalidVarint"}

\* reads one varint from the front of b
DecodeVarint(b) ==
    LET n    == Len(b)
        m    == IF n < 10 THEN n ELSE 10
        ends == {i \in 1..m : b[i] < 128}
    IN  IF ends = {}
        THEN IF n < 10 THEN DecodeErr("Truncated", <<>>)
                       ELSE DecodeErr("InvalidVarint", SubSeq(b, 11, n))
        ELSE LET e == CHOOSE i \in ends : \A j \in ends : i <= j
             IN  IF e = 10 /\ b[10] > 1
                 THEN DecodeErr("InvalidVarint", SubSeq(b, 11, n))
                 ELSE DecodeOk(ToI32(SubSeq(b, 1, e)), SubSeq(b, e + 1, n))

\* <i32 as Message>::merge_field
Int32MergeField(tag, wire_type, b) ==
    IF wire_type # "Varint" THEN DecodeErr("WrongWireType", b) ELSE DecodeVarint(b)

\* <i32 as Message>::encode_raw
Int32EncodeRaw(x, b) == b \o EncodeVarint(x)

\* <i32 as Message>::encoded_len
Int32EncodedLen(x) == Len(EncodeVarint(x))

\* a varint whose tenth byte overflows 64 bits
OverlongFrame == <<255, 255, 255, 255, 255, 255, 255, 255, 255, 2>>
Malformed == [tag |-> "Malformed", v |-> NoVariant, raw |-> 0]
\* a frame a peer wrote from the integer r
Peer(r)   == [tag |-> "Peer", v |-> NoVariant, raw |-> r]
\* no frame was read
Unread    == [tag |-> "Unread", v |-> NoVariant, raw |-> 0]

FrameCount(b) == Cardinality({i \in 1..Len(b) : b[i] < 128})
Intact(b)     == IF b = <<>> THEN TRUE ELSE b[Len(b)] < 128

(***************************************************************************)
(* impl Message for OpenEnum<T>                                            *)
(***************************************************************************)
encoded_len(self) == Int32EncodedLen(to_raw(self))

encode_raw(self, b) == Int32EncodeRaw(to_raw(self), b)

\* merge_field replacing only a holder that still has its cleared value
merge_field_first_wins(self, tag, wire_type, b) ==
    LET d == Int32MergeField(tag, wire_type, b)
    IN  IF d.err # ""
        THEN [holder |-> self, result |-> Result(d.err, NoVariant, 0, 0),
              raw |-> 0, rest |-> d.rest]
        ELSE [holder |-> IF self = from_raw(0) THEN from_raw(d.value) ELSE self,
              result |-> Unit, raw |-> d.value, rest |-> d.rest]

\* merge_field assigning the holder before the decode result is examined
merge_field_assign_first(self, tag, wire_type, b) ==
    LET d == Int32MergeField(tag, wire_type, b)
    IN  IF d.err # ""
        THEN [holder |-> from_raw(0), result |-> Result(d.err, NoVariant, 0, 0),
              raw |-> 0, rest |-> d.rest]
        ELSE [holder |-> from_raw(d.value), result |-> Unit,
              raw |-> d.value, rest |-> d.rest]

\* merge_field storing the integer read without converting it
merge_field_unconverted(self, tag, wire_type, b) ==
    LET d == Int32MergeField(tag, wire_type, b)
    IN  IF d.err # ""
        THEN [holder |-> self, result |-> Result(d.err, NoVariant, 0, 0),
              raw |-> 0, rest |-> d.rest]
        ELSE [holder |-> Unknown(d.value), result |-> Unit,
              raw |-> d.value, rest |-> d.rest]

\* the holder, the result, the integer read and the buffer after the call
merge_field(self, tag, wire_type, b) ==
    LET d == Int32MergeField(tag, wire_type, b)
    IN  IF d.err # ""
        THEN [holder |-> self, result |-> Result(d.err, NoVariant, 0, 0),
              raw |-> 0, rest |-> d.rest]
        ELSE [holder |-> from_raw(d.value), result |-> Unit,
              raw |-> d.value, rest |-> d.rest]

\* clear resetting to Default::default()
clear_default(self) == default

clear(self) == from_raw(0)

(***************************************************************************)
(* The state machine.                                                      *)
(***************************************************************************)
TypeOK ==
    /\ code \in TMappings
    /\ dflt \in Variants
    /\ holder \in OpenEnum
    /\ prev \in OpenEnum
    /\ \A i \in 1..Len(buf) : buf[i] \in 0..255
    /\ Len(sent) = FrameCount(buf)
    /\ nmerged \in 0..MaxMerges
    /\ ncleared \in 0..MaxClears

\* a program that declares the type T and default-constructs a holder
Init ==
    /\ code \in TMappings
    /\ dflt \in Variants
    /\ holder = Known(dflt)
    /\ prev = Known(dflt)
    /\ op = "default"
    /\ arg = 0
    /\ res = Unit
    /\ buf = <<>>
    /\ sent = <<>>
    /\ nmerged = 0
    /\ ncleared = 0

\* a panic ends the run
Running == res.tag # "Panic"

\* a fresh holder replaces the one under study
Construct(name, a, h) ==
    /\ Running
    /\ holder' = h
    /\ prev' = h
    /\ op' = name
    /\ arg' = a
    /\ res' = Unit
    /\ nmerged' = 0
    /\ ncleared' = 0
    /\ UNCHANGED <<code, dflt, buf, sent>>

NewDefault == Construct("default", 0, default)

NewFrom == \E v \in Variants : Construct("from", v, from(v))

NewFromRaw == \E r \in Raws : Construct("from_raw", r, from_raw(r))

\* a method that reads the holder and returns r
Query(name, a, r) ==
    /\ Running
    /\ op' = name
    /\ arg' = a
    /\ res' = r
    /\ prev' = holder
    /\ ncleared' = 0
    /\ UNCHANGED <<code, dflt, holder, buf, sent, nmerged>>

IntoRaw == Query("into_raw", 0, RawInt(into_raw(holder)))

ToRaw == Query("to_raw", 0, RawInt(to_raw(holder)))

Unwrap == Query("unwrap", 0, unwrap(holder))

UnwrapOr == \E d \in Variants : Query("unwrap_or", d, unwrap_or(holder, d))

UnwrapOrElse == \E f \in FnIds : Query("unwrap_or_else", f, unwrap_or_else(holder, f))

UnwrapOrDefault == Query("unwrap_or_default", 0, unwrap_or_default(holder))

KnownOpt == Query("known", 0, known(holder))

KnownOr == \E e \in FnIds : Query("known_or", e, known_or(holder, e))

KnownOrElse == \E g \in FnIds : Query("known_or_else", g, known_or_else(holder, g))

EncodedLen == Query("encoded_len", 0, RawInt(encoded_len(holder)))

EncodeRaw ==
    /\ Running
    /\ Intact(buf)
    /\ Len(sent) < MaxFrames
    /\ buf' = encode_raw(holder, buf)
    /\ sent' = Append(sent, holder)
    /\ op' = "encode_raw"
    /\ arg' = 0
    /\ res' = Unit
    /\ prev' = holder
    /\ ncleared' = 0
    /\ UNCHANGED <<code, dflt, holder, nmerged>>

MergeField ==
    \E tag \in Tags, wire_type \in WireTypes :
        LET m == merge_field(holder, tag, wire_type, buf)
            n == FrameCount(m.rest)
        IN  /\ Running
            /\ m.result = Unit => nmerged < MaxMerges
            /\ holder' = m.holder
            /\ res' = m.result
            /\ buf' = m.rest
            /\ sent' = SubSeq(sent, Len(sent) - n + 1, Len(sent))
            /\ op' = "merge_field"
            /\ arg' = [tag |-> tag, wire_type |-> wire_type, raw |-> m.raw,
                       origin |-> IF m.result = Unit THEN Head(sent) ELSE Unread]
            /\ prev' = holder
            /\ nmerged' = IF m.result = Unit THEN nmerged + 1 ELSE nmerged
            /\ ncleared' = 0
            /\ UNCHANGED <<code, dflt>>

Clear ==
    /\ Running
    /\ ncleared < MaxClears
    /\ holder' = clear(holder)
    /\ op' = "clear"
    /\ arg' = 0
    /\ res' = Unit
    /\ prev' = holder
    /\ nmerged' = 0
    /\ ncleared' = ncleared + 1
    /\ UNCHANGED <<code, dflt, buf, sent>>

\* a peer, whose schema may differ, writes the field with the integer r
Receive ==
    \E r \in Raws :
        /\ Running
        /\ Intact(buf)
        /\ Len(sent) < MaxFrames
        /\ buf' = Int32EncodeRaw(r, buf)
        /\ sent' = Append(sent, Peer(r))
        /\ op' = "receive"
        /\ arg' = r
        /\ res' = Unit
        /\ prev' = holder
        /\ ncleared' = 0
        /\ UNCHANGED <<code, dflt, holder, nmerged>>

\* the transport delivers the buffer without its last byte
Truncate ==
    /\ Running
    /\ buf # <<>>
    /\ Intact(buf)
    /\ buf' = SubSeq(buf, 1, Len(buf) - 1)
    /\ sent' = SubSeq(sent, 1, Len(sent) - 1)
    /\ op' = "truncate"
    /\ arg' = 0
    /\ res' = Unit
    /\ prev' = holder
    /\ ncleared' = 0
    /\ UNCHANGED <<code, dflt, holder, nmerged>>

\* a peer writes a varint that does not fit 64 bits
Corrupt ==
    /\ Running
    /\ Intact(buf)
    /\ Len(sent) < MaxFrames
    /\ buf' = buf \o OverlongFrame
    /\ sent' = Append(sent, Malformed)
    /\ op' = "corrupt"
    /\ arg' = 0
    /\ res' = Unit
    /\ prev' = holder
    /\ ncleared' = 0
    /\ UNCHANGED <<code, dflt, holder, nmerged>>

\* construction, conversion and extraction
Next ==
    \/ NewDefault
    \/ NewFrom
    \/ NewFromRaw
    \/ IntoRaw
    \/ ToRaw
    \/ Unwrap
    \/ UnwrapOr
    \/ UnwrapOrElse
    \/ UnwrapOrDefault
    \/ KnownOpt
    \/ KnownOr
    \/ KnownOrElse

Spec == Init /\ [][Next]_vars

\* construction and the Message implementation over a wire buffer
WireNext ==
    \/ NewDefault
    \/ NewFrom
    \/ NewFromRaw
    \/ EncodedLen
    \/ EncodeRaw
    \/ MergeField
    \/ Clear
    \/ Receive
    \/ Truncate
    \/ Corrupt

WireSpec == Init /\ [][WireNext]_vars

(***************************************************************************)
(* Properties.                                                             *)
(***************************************************************************)
Mapped(r) == try_into_T(r) # NoVariant
ToRawOps  == {"to_raw", "into_raw"}
MergedOk  == op = "merge_field" /\ res = Unit
MergeFailed == op = "merge_field" /\ res.tag \in DecodeErrors

\* C1: default() equals from_raw(0), whatever T's mapping and default
\* variant are: Known(variant of code 0) if 0 is a code, else Unknown(0).
C1_DefaultIsFromRawZero ==
    op = "default" =>
        /\ holder = from_raw(0)
        /\ holder = IF Mapped(0) THEN Known(try_into_T(0)) ELSE Unknown(0)

\* C2: after two or more successful merge_field calls the holder is
\* from_raw of the integer the last call read, whatever it held before.
C2_MergeLastWriteWins ==
    (MergedOk /\ nmerged >= 2) => holder = from_raw(arg.raw)

C2_Witness ==
    MergedOk /\ nmerged >= 2 /\ prev # holder /\ prev # from_raw(0)

\* C3: a frame written by encode_raw of a holder h, when merge_field reads
\* it into a holder of any value, leaves that holder equal to h.
C3_WireRoundTrip ==
    (MergedOk /\ arg.origin \in OpenEnum) => holder = arg.origin

C3_Witness ==
    /\ MergedOk
    /\ arg.origin = Unknown(999)
    /\ holder = Unknown(999)
    /\ prev.tag = "Known"

\* C4: to_raw and into_raw of Known(v) return v's code, and from_raw of
\* the integer returned is Known(v) again.
C4_KnownRoundTrip ==
    [][/\ (op' \in ToRawOps /\ holder'.tag = "Known")
            => res' = RawInt(code[holder'.v])
       /\ (op \in ToRawOps /\ holder.tag = "Known"
            /\ op' = "from_raw" /\ arg' = res.n)
            => holder' = holder]_vars

C4_Witness ==
    /\ op = "from_raw"
    /\ holder.tag = "Known"
    /\ arg = into_raw(holder)
    /\ arg = MaxCode

\* C5: for an integer r that is no variant's code, from_raw(r) is
\* Unknown(r) and to_raw / into_raw of Unknown(r) is r, unchanged, also
\* for negative r and the extremes of i32; from_raw returns a holder for
\* every integer.
C5_UnknownRoundTrip ==
    /\ (op = "from_raw" /\ ~Mapped(arg)) => holder = Unknown(arg)
    /\ op = "from_raw" => holder \in OpenEnum /\ res = Unit
    /\ (op \in ToRawOps /\ holder.tag = "Unknown") => res = RawInt(holder.raw)

C5_Witness ==
    op = "to_raw" /\ holder = Unknown(I32Min) /\ res = RawInt(I32Min)

\* C6: after clear the holder is from_raw(0), and a second clear leaves
\* what the first one left.
C6_ClearIdempotent ==
    op = "clear" =>
        /\ holder = from_raw(0)
        /\ holder = IF Mapped(0) THEN Known(try_into_T(0)) ELSE Unknown(0)
        /\ ncleared >= 2 => holder = prev

C6_Witness ==
    op = "clear" /\ ncleared = 2 /\ holder = Unknown(0)

\* C7: on Known(v) every non-fatal extraction returns v (Some(v), Ok(v))
\* and ignores its fallback; on Unknown(r) each returns its fallback:
\* the given default, f(r), T's default, None, Err(e), Err(g(r)).
C7_Extraction ==
    LET v == holder.v
        r == holder.raw
        k == holder.tag = "Known"
    IN  /\ op = "unwrap_or" => res = IF k THEN Value(v) ELSE Value(arg)
        /\ op = "unwrap_or_else"
             => res = IF k THEN Value(v) ELSE Value(FallbackFn(arg, r))
        /\ op = "unwrap_or_default"
             => res = IF k THEN Value(v) ELSE Value(dflt)
        /\ op = "known" => res = IF k THEN Some(v) ELSE None
        /\ op = "known_or" => res = IF k THEN Ok(v) ELSE Err(arg)
        /\ op = "known_or_else" => res = IF k THEN Ok(v) ELSE ErrOf(arg, r)

C7_Witness ==
    /\ op = "unwrap_or_else"
    /\ holder = Unknown(999)
    /\ res = Value(FallbackFn(arg, 999))
    /\ res # Value(FallbackFn(arg, 0))

\* C8: unwrap returns v on Known(v); on Unknown(r) it returns nothing and
\* panics with a message that carries r, after which nothing runs; no
\* other case panics.
C8_UnwrapFatalOnUnknown ==
    /\ op = "unwrap"
         => res = IF holder.tag = "Known" THEN Value(holder.v) ELSE Panic(holder.raw)
    /\ res.tag = "Panic"
         => op = "unwrap" /\ holder.tag = "Unknown" /\ ~ENABLED Next

C8_Witness ==
    op = "unwrap" /\ holder = Unknown(999) /\ res = Panic(999)

\* C9: when the integer decode fails, merge_field returns the error of the
\* decode, of one of its kinds, and the holder is what it was before.
C9_FailedMergeKeepsHolder ==
    [][(op' = "merge_field" /\ res' # Unit)
        => /\ holder' = holder
           /\ res'.tag \in DecodeErrors
           /\ res'.tag = Int32MergeField(arg'.tag, arg'.wire_type, buf).err]_vars

C9_Witness ==
    MergeFailed /\ res.tag = "InvalidVarint" /\ holder = prev /\ holder # from_raw(0)

\* C10: a holder built by default(), from or from_raw and then changed by
\* merge_field and clear is Unknown(r) only for an r that is no variant's
\* code, and equals from_raw(to_raw(holder)).
C10_Canonical ==
    /\ holder.tag = "Unknown" => ~Mapped(holder.raw)
    /\ holder = from_raw(to_raw(holder))

C10_Witness ==
    MergedOk /\ holder.tag = "Known" /\ nmerged >= 2 /\ prev.tag = "Unknown"

====
